---------------------------- MODULE Spec2Model ----------------------------
(***************************************************************************)
(* Transmission-line core of EMT-Assignment02: propagation solver          *)
(* (tl_basics.py), two-port algebra (tl_abcd.py), reflection metrics       *)
(* (tl_metrics.py) and the matching solvers (tl_matching.py).              *)
(*                                                                         *)
(* Floating point.  The code computes in IEEE binary64.  The model         *)
(* computes in a decimal floating point of the same shape with a 4-digit   *)
(* significand: a real is <<m, e>> standing for m * 10^e, with m = 0 or    *)
(* 1000 <= |m| <= 9999, every operation rounding its exact result to       *)
(* nearest.  Infinities and NaN are kept and follow the IEEE rules, so     *)
(* 0 * inf, inf - inf, 0/0 and every comparison with NaN behave as they do *)
(* in the code.  A Python complex or numpy.complex128 is a pair            *)
(* <<re, im>> of such reals.  Python's None is the string "None".  There   *)
(* is one zero: the arguments are non-negative, a zero imaginary part      *)
(* under a square root is +0, and -0 compares equal to 0.                  *)
(*                                                                         *)
(* The two divisions of the code are kept apart: Python's own complex      *)
(* division raises ZeroDivisionError on a zero divisor, numpy's scalar     *)
(* division returns inf/nan (with a RuntimeWarning).  Arguments are Python *)
(* scalars, as annotated in the signatures and passed by the tests; what   *)
(* np.sqrt, np.cosh, np.imag ... return are numpy scalars.                 *)
(*                                                                         *)
(* Values used more than once are passed as operator parameters: each      *)
(* function of the code is a chain of operators, one per group of lines.   *)
(***************************************************************************)
EXTENDS Integers, Sequences, FiniteSets, TLC

(* fn: the function running; pc: where it stands ("call", "scan",           *)
(* "returned", "raised"); args: its arguments; loc: its locals; ret, exc:   *)
(* what it returned or raised; hist: the calls completed before it, whose   *)
(* results the caller passed on.                                            *)
VARIABLES fn, pc, args, loc, ret, exc, hist

vars == <<fn, pc, args, loc, ret, exc, hist>>

None == "None"

-----------------------------------------------------------------------------
(* Reals: decimal floating point with a 4-digit significand.               *)

NaN    == <<0, 9999>>
PosInf == <<1, 9999>>
NegInf == <<-1, 9999>>

IsNaN(x)    == x[1] = 0 /\ x[2] = 9999
IsInf(x)    == x[1] # 0 /\ x[2] = 9999
IsFinite(x) == x[2] # 9999
IsZero(x)   == x[1] = 0 /\ x[2] # 9999
Sign(x)     == IF x[1] > 0 THEN 1 ELSE IF x[1] < 0 THEN -1 ELSE 0

IAbs(n) == IF n < 0 THEN -n ELSE n

Pow10(k) ==
  CASE k = 0 -> 1 [] k = 1 -> 10 [] k = 2 -> 100 [] k = 3 -> 1000
    [] k = 4 -> 10000 [] k = 5 -> 100000 [] k = 6 -> 1000000
    [] k = 7 -> 10000000 [] k = 8 -> 100000000 [] OTHER -> 1000000000

NDigits(a) ==
  IF a < 10 THEN 1 ELSE IF a < 100 THEN 2 ELSE IF a < 1000 THEN 3
  ELSE IF a < 10000 THEN 4 ELSE IF a < 100000 THEN 5
  ELSE IF a < 1000000 THEN 6 ELSE IF a < 10000000 THEN 7
  ELSE IF a < 100000000 THEN 8 ELSE IF a < 1000000000 THEN 9 ELSE 10

Zero == <<0, 0>>
One  == <<1000, -3>>
Two  == <<2000, -3>>
Half == <<5000, -4>>
Pi   == <<3142, -3>>
HalfPi == <<1571, -3>>

(* binary64 overflows to infinity above 1.8e308 and underflows to zero      *)
(* below 4.9e-324.                                                          *)
Pack(s, a, e) ==
  IF e > 305 THEN (IF s > 0 THEN PosInf ELSE NegInf)
  ELSE IF e < -327 THEN Zero
  ELSE <<s * a, e>>

Carry(s, q, e) == IF q = 10000 THEN Pack(s, 1000, e + 1) ELSE Pack(s, q, e)

Scale(s, a, n, e) ==
  IF n <= 4 THEN Pack(s, a * Pow10(4 - n), e - (4 - n))
  ELSE Carry(s, (a + Pow10(n - 4) \div 2) \div Pow10(n - 4), e + (n - 4))

(* The real nearest to m * 10^e (round half away from zero).                *)
Norm(m, e) ==
  IF m = 0 THEN Zero
  ELSE Scale(IF m < 0 THEN -1 ELSE 1, IAbs(m), NDigits(IAbs(m)), e)

IntToF(n) == Norm(n, 0)

FNeg(x) == IF IsNaN(x) THEN NaN ELSE <<-x[1], x[2]>>
FAbs(x) == IF IsNaN(x) THEN NaN ELSE <<IAbs(x[1]), x[2]>>

AddAligned(hi, lo) ==
  IF hi[2] - lo[2] > 5 THEN hi
  ELSE Norm(hi[1] * Pow10(hi[2] - lo[2]) + lo[1], lo[2])

FAdd(x, y) ==
  IF IsNaN(x) \/ IsNaN(y) THEN NaN
  ELSE IF IsInf(x) THEN (IF IsInf(y) /\ y # x THEN NaN ELSE x)
  ELSE IF IsInf(y) THEN y
  ELSE IF x[1] = 0 THEN y
  ELSE IF y[1] = 0 THEN x
  ELSE IF x[2] >= y[2] THEN AddAligned(x, y) ELSE AddAligned(y, x)

FSub(x, y) == FAdd(x, FNeg(y))

FMul(x, y) ==
  IF IsNaN(x) \/ IsNaN(y) THEN NaN
  ELSE IF IsInf(x) \/ IsInf(y)
       THEN (IF x[1] = 0 \/ y[1] = 0 THEN NaN
             ELSE IF Sign(x) = Sign(y) THEN PosInf ELSE NegInf)
  ELSE Norm(x[1] * y[1], x[2] + y[2])

(* numpy's float64 division: x/0 is +-inf, 0/0 is nan, nothing is raised.   *)
FDiv(x, y) ==
  IF IsNaN(x) \/ IsNaN(y) THEN NaN
  ELSE IF IsInf(x)
       THEN (IF IsInf(y) THEN NaN
             ELSE IF Sign(x) * (IF y[1] < 0 THEN -1 ELSE 1) > 0
                  THEN PosInf ELSE NegInf)
  ELSE IF IsInf(y) THEN Zero
  ELSE IF y[1] = 0
       THEN (IF x[1] = 0 THEN NaN
             ELSE IF x[1] > 0 THEN PosInf ELSE NegInf)
  ELSE Norm(Sign(x) * Sign(y) * ((IAbs(x[1]) * 100000) \div IAbs(y[1])),
            x[2] - y[2] - 5)

(* Comparisons; every comparison with NaN is false.                         *)
FLt(x, y) ==
  IF IsNaN(x) \/ IsNaN(y) THEN FALSE
  ELSE IF x = y THEN FALSE
  ELSE IF x = NegInf \/ y = PosInf THEN TRUE
  ELSE IF x = PosInf \/ y = NegInf THEN FALSE
  ELSE IF Sign(x) # Sign(y) THEN Sign(x) < Sign(y)
  ELSE IF Sign(x) > 0
       THEN x[2] < y[2] \/ (x[2] = y[2] /\ x[1] < y[1])
       ELSE x[2] > y[2] \/ (x[2] = y[2] /\ x[1] < y[1])

FEq(x, y) == ~IsNaN(x) /\ ~IsNaN(y) /\ x = y
FLe(x, y) == FLt(x, y) \/ FEq(x, y)
FGe(x, y) == FLe(y, x)
FGt(x, y) == FLt(y, x)

RECURSIVE NewtonSqrt(_, _)
NewtonSqrt(n, x) ==
  IF (x + n \div x) \div 2 >= x THEN x
  ELSE NewtonSqrt(n, (x + n \div x) \div 2)

NearestRoot(n, r) == IF n - r * r > r THEN r + 1 ELSE r

(* The integer nearest to the square root of n, 0 < n < 2 * 10^9.           *)
ISqrt(n) == NearestRoot(n, NewtonSqrt(n, 46340))

(* numpy's sqrt of a float64: nan for a negative argument.                  *)
FSqrt(x) ==
  IF IsNaN(x) THEN NaN
  ELSE IF x[1] < 0 THEN NaN
  ELSE IF IsInf(x) THEN PosInf
  ELSE IF x[1] = 0 THEN Zero
  ELSE Norm(ISqrt(x[1] * (IF x[2] % 2 = 0 THEN 10000 ELSE 100000)),
            (x[2] - (IF x[2] % 2 = 0 THEN 4 ELSE 5)) \div 2)

-----------------------------------------------------------------------------
(* Elementary functions of numpy on float64.                                *)

(* x as an integer count of 10^-6, for |x| <= 2000 (argument reduction).    *)
ToMicro(x) ==
  IF x[2] + 6 >= 0 THEN x[1] * Pow10(x[2] + 6)
  ELSE IF x[2] + 6 < -5 THEN 0
  ELSE Sign(x) * ((IAbs(x[1]) + Pow10(-(x[2] + 6)) \div 2) \div Pow10(-(x[2] + 6)))

(* X micro-radians less k quarter turns (pi/2 = 1570796e-6).                *)
Quadrant(X, k) == <<k % 4, Norm(X - k * 1570796, -6)>>

(* Nearest multiple of pi/2 and the remainder, |remainder| <= pi/4.         *)
QuadrantOf(X) == Quadrant(X, (X + 785398) \div 1570796)

SinPoly(r, r2) ==
  FMul(r, FSub(One, FMul(FMul(r2, <<1667, -4>>),
               FSub(One, FMul(FMul(r2, <<5000, -5>>),
                    FSub(One, FMul(r2, <<2381, -5>>)))))))

CosPoly(r2) ==
  FSub(One, FMul(FMul(r2, Half),
       FSub(One, FMul(FMul(r2, <<8333, -5>>),
            FSub(One, FMul(FMul(r2, <<3333, -5>>),
                 FSub(One, FMul(r2, <<1786, -5>>))))))))

Rotate(k, s, c) ==
  CASE k = 0 -> <<s, c>>
    [] k = 1 -> <<c, FNeg(s)>>
    [] k = 2 -> <<FNeg(s), FNeg(c)>>
    [] OTHER -> <<FNeg(c), s>>

SinCosReduced(k, r, r2) == Rotate(k, SinPoly(r, r2), CosPoly(r2))
SinCosQuadrant(q) == SinCosReduced(q[1], q[2], FMul(q[2], q[2]))

(* <<sin x, cos x>>; nan for an infinite or NaN argument, as numpy.  An     *)
(* argument beyond 2000 rad loses all its phase to rounding.                *)
SinCos(x) ==
  IF ~IsFinite(x) THEN <<NaN, NaN>>
  ELSE IF x[1] = 0 THEN <<Zero, One>>
  ELSE IF x[2] > 0 \/ (x[2] = 0 /\ IAbs(x[1]) > 2000) THEN <<Zero, One>>
  ELSE SinCosQuadrant(QuadrantOf(ToMicro(x)))

Quotient(p) == FDiv(p[1], p[2])
FTan(x) == Quotient(SinCos(x))

SinhPoly(x, x2) ==
  FMul(x, FAdd(One, FMul(FMul(x2, <<1667, -4>>),
               FAdd(One, FMul(FMul(x2, <<5000, -5>>),
                    FAdd(One, FMul(x2, <<2381, -5>>)))))))

CoshPoly(x2) ==
  FAdd(One, FMul(FMul(x2, Half),
       FAdd(One, FMul(FMul(x2, <<8333, -5>>),
            FAdd(One, FMul(FMul(x2, <<3333, -5>>),
                 FAdd(One, FMul(x2, <<1786, -5>>))))))))

SinhCoshSmall(x, x2) == <<SinhPoly(x, x2), CoshPoly(x2)>>

(* sinh 2u = 2 sinh u cosh u, cosh 2u = cosh^2 u + sinh^2 u.                *)
Double(h) ==
  <<FMul(Two, FMul(h[1], h[2])), FAdd(FMul(h[2], h[2]), FMul(h[1], h[1]))>>

(* <<sinh x, cosh x>> of a real: the series for |x| <= 1, doubling above.   *)
RECURSIVE SinhCosh(_)
SinhCosh(x) ==
  IF IsNaN(x) THEN <<NaN, NaN>>
  ELSE IF IsInf(x) THEN <<x, PosInf>>
  ELSE IF x[1] = 0 THEN <<Zero, One>>
  ELSE IF x[2] > 0 THEN <<(IF x[1] > 0 THEN PosInf ELSE NegInf), PosInf>>
  ELSE IF FGt(FAbs(x), One) THEN Double(SinhCosh(FMul(x, Half)))
  ELSE SinhCoshSmall(x, FMul(x, x))

AtanPoly(t, t2) ==
  FMul(t, FSub(One, FMul(t2,
               FSub(<<3333, -4>>, FMul(t2,
                    FSub(<<2000, -4>>, FMul(t2,
                         FSub(<<1429, -4>>, FMul(t2, <<1111, -4>>)))))))))

AtanSeries(t) == AtanPoly(t, FMul(t, t))

(* arctan t for 0 <= t <= 1: above tan(pi/8), pi/4 + arctan((t-1)/(t+1)).   *)
AtanUnit(t) ==
  IF FGt(t, <<4142, -4>>)
  THEN FAdd(<<7854, -4>>, AtanSeries(FDiv(FSub(t, One), FAdd(t, One))))
  ELSE AtanSeries(t)

AtanPos(a) ==
  IF FGt(a, One) THEN FSub(HalfPi, AtanUnit(FDiv(One, a))) ELSE AtanUnit(a)

(* numpy's arctan of a float64.                                             *)
FArctan(x) ==
  IF IsNaN(x) THEN NaN
  ELSE IF x = PosInf THEN HalfPi
  ELSE IF x = NegInf THEN FNeg(HalfPi)
  ELSE IF x[1] = 0 THEN Zero
  ELSE IF x[1] < 0 THEN FNeg(AtanPos(FAbs(x))) ELSE AtanPos(x)

LnPoly(z, z2) ==
  FMul(Two, FMul(z, FAdd(One, FMul(z2,
       FAdd(<<3333, -4>>, FMul(z2,
            FAdd(<<2000, -4>>, FMul(z2, <<1429, -4>>))))))))

LnSeries(z) == LnPoly(z, FMul(z, z))

(* ln y for 1 <= y < 10: y = 2^k * w with 0.75 <= w < 1.5 (ln 2 = 0.6931).  *)
RECURSIVE LnUnit(_)
LnUnit(y) ==
  IF FGe(y, <<1500, -3>>) THEN FAdd(<<6931, -4>>, LnUnit(FMul(y, Half)))
  ELSE LnSeries(FDiv(FSub(y, One), FAdd(y, One)))

(* numpy's log10 of a float64: -inf at 0, nan below 0 (ln 10 = 2.303).      *)
FLog10(x) ==
  IF IsNaN(x) THEN NaN
  ELSE IF x = PosInf THEN PosInf
  ELSE IF x[1] < 0 THEN NaN
  ELSE IF x[1] = 0 THEN NegInf
  ELSE FAdd(IntToF(x[2] + 3), FDiv(LnUnit(<<x[1], -3>>), <<2303, -3>>))

-----------------------------------------------------------------------------
(* Complex numbers <<re, im>>.                                              *)

Re(z) == z[1]
Im(z) == z[2]
OfReal(a) == <<a, Zero>>
CZero == <<Zero, Zero>>
COne  == <<One, Zero>>
ImagUnit == <<Zero, One>>

IsCZero(z)   == IsZero(z[1]) /\ IsZero(z[2])
IsCFinite(z) == IsFinite(z[1]) /\ IsFinite(z[2])
IsCNaN(z)    == IsNaN(z[1]) \/ IsNaN(z[2])

CAdd(a, b) == <<FAdd(a[1], b[1]), FAdd(a[2], b[2])>>
CSub(a, b) == <<FSub(a[1], b[1]), FSub(a[2], b[2])>>
CNeg(a)    == <<FNeg(a[1]), FNeg(a[2])>>
CMul(a, b) ==
  <<FSub(FMul(a[1], b[1]), FMul(a[2], b[2])),
    FAdd(FMul(a[1], b[2]), FMul(a[2], b[1]))>>

(* numpy's complex128 division (Smith's method); a zero divisor gives       *)
(* components x/0 and nothing is raised.                                    *)
SmithRe(a, rat, scl) ==
  <<FMul(FAdd(a[1], FMul(a[2], rat)), scl),
    FMul(FSub(a[2], FMul(a[1], rat)), scl)>>

SmithIm(a, rat, scl) ==
  <<FMul(FAdd(FMul(a[1], rat), a[2]), scl),
    FMul(FSub(FMul(a[2], rat), a[1]), scl)>>

SmithReBy(a, b, rat) == SmithRe(a, rat, FDiv(One, FAdd(b[1], FMul(b[2], rat))))
SmithImBy(a, b, rat) == SmithIm(a, rat, FDiv(One, FAdd(b[2], FMul(b[1], rat))))

CDivNp(a, b) ==
  IF FGe(FAbs(b[1]), FAbs(b[2]))
  THEN IF IsZero(b[1]) /\ IsZero(b[2])
       THEN <<FDiv(a[1], FAbs(b[1])), FDiv(a[2], FAbs(b[1]))>>
       ELSE SmithReBy(a, b, FDiv(b[2], b[1]))
  ELSE SmithImBy(a, b, FDiv(b[1], b[2]))

(* Python's complex division for a divisor that is not zero (on zero the    *)
(* interpreter raises ZeroDivisionError: the callers test IsCZero first).   *)
QuotRe(a, ratio, denom) ==
  <<FDiv(FAdd(a[1], FMul(a[2], ratio)), denom),
    FDiv(FSub(a[2], FMul(a[1], ratio)), denom)>>

QuotIm(a, ratio, denom) ==
  <<FDiv(FAdd(FMul(a[1], ratio), a[2]), denom),
    FDiv(FSub(FMul(a[2], ratio), a[1]), denom)>>

QuotReBy(a, b, ratio) == QuotRe(a, ratio, FAdd(b[1], FMul(b[2], ratio)))
QuotImBy(a, b, ratio) == QuotIm(a, ratio, FAdd(FMul(b[1], ratio), b[2]))

CDivPy(a, b) ==
  IF FGe(FAbs(b[1]), FAbs(b[2])) THEN QuotReBy(a, b, FDiv(b[2], b[1]))
  ELSE IF FGe(FAbs(b[2]), FAbs(b[1])) THEN QuotImBy(a, b, FDiv(b[1], b[2]))
  ELSE <<NaN, NaN>>

HypotScaled(hi, r) == FMul(hi, FSqrt(FAdd(One, FMul(r, r))))

Hypot(hi, lo) ==
  IF IsZero(hi) THEN Zero
  ELSE IF IsZero(lo) THEN hi
  ELSE HypotScaled(hi, FDiv(lo, hi))

(* numpy's abs of a complex128 (hypot): inf if a component is infinite.     *)
CAbs(z) ==
  IF IsInf(z[1]) \/ IsInf(z[2]) THEN PosInf
  ELSE IF IsCNaN(z) THEN NaN
  ELSE IF FGe(FAbs(z[1]), FAbs(z[2])) THEN Hypot(FAbs(z[1]), FAbs(z[2]))
  ELSE Hypot(FAbs(z[2]), FAbs(z[1]))

(* With t = sqrt((|a| + |z|) / 2): sqrt z = t + j b/(2t) for a >= 0, and    *)
(* |b|/(2t) +- j t for a < 0, the sign that of b.                           *)
SqrtFiniteNegated(a, b, t) ==
  IF a[1] >= 0 THEN <<FNeg(t), FNeg(FDiv(b, FMul(Two, t)))>>
  ELSE <<FNeg(FDiv(FAbs(b), FMul(Two, t))), IF Sign(b) < 0 THEN t ELSE FNeg(t)>>

SqrtFinite(a, b, t) ==
  IF a[1] >= 0 THEN <<t, FDiv(b, FMul(Two, t))>>
  ELSE <<FDiv(FAbs(b), FMul(Two, t)), IF Sign(b) < 0 THEN FNeg(t) ELSE t>>

(* numpy's sqrt of a complex128: the principal branch, real part >= 0.      *)
CSqrt(z) ==
  IF IsCZero(z) THEN <<Zero, z[2]>>
  ELSE IF IsInf(z[2]) THEN <<PosInf, z[2]>>
  ELSE IF IsNaN(z[1]) THEN <<NaN, NaN>>
  ELSE IF IsInf(z[1])
       THEN (IF z[1] = NegInf
             THEN <<FAbs(FSub(z[2], z[2])),
                    IF Sign(z[2]) < 0 THEN NegInf ELSE PosInf>>
             ELSE <<z[1], FSub(z[2], z[2])>>)
  ELSE IF IsNaN(z[2]) THEN <<NaN, NaN>>
  ELSE SqrtFinite(z[1], z[2], FSqrt(FMul(FAdd(FAbs(z[1]), CAbs(z)), Half)))

(* <<cosh z, sinh z>> from h = <<sinh x, cosh x>> and sc = <<sin y, cos y>>. *)
CHyp(z, h, sc) ==
  IF IsFinite(z[1]) /\ IsZero(z[2]) THEN <<<<h[2], Zero>>, <<h[1], Zero>>>>
  ELSE <<<<FMul(h[2], sc[2]), FMul(h[1], sc[1])>>,
         <<FMul(h[1], sc[2]), FMul(h[2], sc[1])>>>>

(* numpy's cosh and sinh of a complex128.                                   *)
CCoshSinh(z) == CHyp(z, SinhCosh(z[1]), SinCos(z[2]))

(* numpy's arctan and tan of a complex128, on the arguments the stub solver *)
(* applies them to: the section is lossless, so its Z0 and every angle are  *)
(* real (imaginary part 0), or the quotient 1/(0+0j) = inf+nanj, which      *)
(* catan maps to pi/2.                                                      *)
CArctan(w) ==
  IF IsInf(w[1]) THEN <<(IF w[1] = PosInf THEN HalfPi ELSE FNeg(HalfPi)), Zero>>
  ELSE IF IsCNaN(w) THEN <<NaN, NaN>>
  ELSE <<FArctan(w[1]), IF IsZero(w[2]) THEN Zero ELSE NaN>>

CTan(w) ==
  IF IsCNaN(w) \/ IsInf(w[1]) THEN <<NaN, NaN>>
  ELSE <<FTan(w[1]), IF IsZero(w[2]) THEN Zero ELSE NaN>>

(* numpy orders complex numbers lexicographically.                          *)
CLt(a, b) ==
  /\ ~IsCNaN(a) /\ ~IsCNaN(b)
  /\ FLt(a[1], b[1]) \/ (FEq(a[1], b[1]) /\ FLt(a[2], b[2]))

-----------------------------------------------------------------------------
(* Outcomes of a call: a returned value or a raised exception.              *)

Return(v) == [exc |-> None, val |-> v]
Raise(e)  == [exc |-> e, val |-> None]

-----------------------------------------------------------------------------
(* tl_basics.py                                                             *)

(* Line 27: omega = 2 * np.pi * f.                                          *)
Omega(freq) == FMul(FMul(Two, Pi), freq)

(* Lines 28-29: R + 1j * omega * L and G + 1j * omega * C.                  *)
Immittance(real, omega, reactive) ==
  CAdd(OfReal(real), CMul(CMul(ImagUnit, OfReal(omega)), OfReal(reactive)))

(* Lines 30-31: gamma = np.sqrt(Z * Y) is computed first; Z and Y are       *)
(* Python complex, so Z / Y raises ZeroDivisionError when Y = 0.            *)
PropagationOf(Z, Y) ==
  IF IsCZero(Y) THEN Raise("ZeroDivisionError")
  ELSE Return(<<CSqrt(CMul(Z, Y)), CSqrt(CDivPy(Z, Y))>>)

LineImmittances(R, L, G, C, omega) ==
  PropagationOf(Immittance(R, omega, L), Immittance(G, omega, C))

gamma_Z0(R, L, G, C, freq) == LineImmittances(R, L, G, C, Omega(freq))

-----------------------------------------------------------------------------
(* tl_abcd.py: a matrix is <<<<A, B>>, <<C, D>>>>.                          *)

Identity2 == <<<<COne, CZero>>, <<CZero, COne>>>>

(* numpy's matrix product of two 2x2 complex arrays.                        *)
MatMul(M, N) ==
  <<<<CAdd(CMul(M[1][1], N[1][1]), CMul(M[1][2], N[2][1])),
      CAdd(CMul(M[1][1], N[1][2]), CMul(M[1][2], N[2][2]))>>,
    <<CAdd(CMul(M[2][1], N[1][1]), CMul(M[2][2], N[2][1])),
      CAdd(CMul(M[2][1], N[1][2]), CMul(M[2][2], N[2][2]))>>>>

(* A line matrix with cosh and sinh exchanged.                               *)
TlineMatrixSwapped(cs, Z0, inv) ==
  <<<<cs[2], CMul(Z0, cs[1])>>, <<CMul(inv, cs[1]), cs[2]>>>>

(* Lines 27-31, with cs = <<cosh(gamma*length), sinh(gamma*length)>> and    *)
(* inv = 1 / Z0.                                                            *)
TlineMatrix(cs, Z0, inv) ==
  <<<<cs[1], CMul(Z0, cs[2])>>, <<CMul(inv, cs[2]), cs[1]>>>>

(* Line 29: 1 / Z0 raises on a Python complex 0 and is inf+nanj on a numpy  *)
(* complex128 0.                                                            *)
TlineOf(cs, Z0, z0_py) ==
  IF z0_py /\ IsCZero(Z0) THEN Raise("ZeroDivisionError")
  ELSE Return(TlineMatrix(cs, Z0, IF z0_py THEN CDivPy(COne, Z0)
                                           ELSE CDivNp(COne, Z0)))

(* abcd_of_tline; z0_py says that Z0 was passed as a Python scalar and not  *)
(* as a numpy scalar.                                                       *)
abcd_of_tline(gamma, Z0, length, z0_py) ==
  TlineOf(CCoshSinh(CMul(gamma, OfReal(length))), Z0, z0_py)

abcd_of_shunt_admittance(Y) == <<<<COne, CZero>>, <<Y, COne>>>>

(* The loop multiplying on the wrong side: result = abcd @ result.           *)
RECURSIVE CascadeFromRight(_, _, _)
CascadeFromRight(result, abcd_list, k) ==
  IF k > Len(abcd_list) THEN result
  ELSE CascadeFromRight(MatMul(abcd_list[k], result), abcd_list, k + 1)

(* Lines 54-55: the loop over abcd_list from position k on.                 *)
RECURSIVE CascadeFrom(_, _, _)
CascadeFrom(result, abcd_list, k) ==
  IF k > Len(abcd_list) THEN result
  ELSE CascadeFrom(MatMul(result, abcd_list[k]), abcd_list, k + 1)

cascade_abcd(abcd_list) == CascadeFrom(Identity2, abcd_list, 1)

(* The tolerance 1e-12 of the sentinel guards.                              *)
Tol12 == <<1000, -15>>

(* np.inf, as the complex value inf+0j it becomes in the arithmetic of its  *)
(* consumers.                                                               *)
InfSentinel == <<PosInf, Zero>>

(* A guard that tests the denominator for exact zero only.                  *)
ZinGuardExactZero(ABCD, ZL, denom) ==
  IF IsCZero(denom) THEN [val |-> InfSentinel, div |-> None]
  ELSE [val |-> CDivNp(CAdd(CMul(ABCD[1][1], ZL), ABCD[1][2]), denom),
        div |-> denom]

(* Lines 70-72; div records the divisor of the division performed, if any.  *)
ZinGuard(ABCD, ZL, denom) ==
  IF FLt(CAbs(denom), Tol12) THEN [val |-> InfSentinel, div |-> None]
  ELSE [val |-> CDivNp(CAdd(CMul(ABCD[1][1], ZL), ABCD[1][2]), denom),
        div |-> denom]

z_in_from_abcd(ABCD, ZL) ==
  ZinGuard(ABCD, ZL, CAdd(CMul(ABCD[2][1], ZL), ABCD[2][2]))

-----------------------------------------------------------------------------
(* tl_metrics.py                                                            *)

(* Lines 22-24; py says that both arguments are Python scalars, so that the *)
(* quotient is Python's and not numpy's.                                    *)
GammaGuard(ZL, Z0, py, denom) ==
  IF FLt(CAbs(denom), Tol12) THEN [val |-> COne, div |-> None]
  ELSE [val |-> IF py THEN CDivPy(CSub(ZL, Z0), denom)
                      ELSE CDivNp(CSub(ZL, Z0), denom),
        div |-> denom]

gamma_of_impedance(ZL, Z0, py) == GammaGuard(ZL, Z0, py, CAdd(ZL, Z0))

VswrOfMag(mag) ==
  IF FGe(mag, One) THEN PosInf ELSE FDiv(FAdd(One, mag), FSub(One, mag))

vswr_from_gamma(gamma) == VswrOfMag(CAbs(gamma))

ReturnLossNoCeiling(mag) == FMul(<<-2000, -2>>, FLog10(mag))

ReturnLossOfMag(mag) ==
  IF FLt(mag, Tol12) THEN <<1000, -1>>
  ELSE FMul(<<-2000, -2>>, FLog10(mag))

return_loss(gamma) == ReturnLossOfMag(CAbs(gamma))

MismatchOfMag2(mag2) ==
  IF FGe(mag2, One) THEN PosInf
  ELSE FMul(<<-1000, -2>>, FLog10(FSub(One, mag2)))

MagSquared(mag) == FMul(mag, mag)

mismatch_loss(gamma) == MismatchOfMag2(MagSquared(CAbs(gamma)))

-----------------------------------------------------------------------------
(* tl_matching.py: quarter_wave_transform.  Its outcome is a record of the  *)
(* exception raised (or None), the QWTMatchResult returned (or None) and    *)
(* the locals bound when it is left.                                        *)

(* np.isclose(x, 0.0): |x - 0| <= atol + rtol * |0| with atol = 1e-8.       *)
IsCloseToZero(x) == IsFinite(x) /\ FLe(FAbs(x), <<1000, -11>>)

QwtUnbound ==
  [gamma |-> None, Z0 |-> None, beta |-> None, Zt |-> None, l_qw |-> None,
   Zin_at_transform_input |-> None, Gamma_in |-> None, VSWR_src |-> None]

(* Line 60.                                                                 *)
QwtResult(l, VSWR_src) ==
  [exc |-> None,
   val |-> [VSWR_src |-> VSWR_src, l_qw |-> l.l_qw, Zt |-> l.Zt, j_index |-> 1],
   locals |-> [l EXCEPT !.VSWR_src = VSWR_src]]

(* Line 58.                                                                 *)
QwtScore(l, Gamma_in) ==
  QwtResult([l EXCEPT !.Gamma_in = Gamma_in], vswr_from_gamma(Gamma_in))

(* Line 57: Zin and Z0 are numpy scalars.                                   *)
QwtReflect(l, Zin) ==
  QwtScore([l EXCEPT !.Zin_at_transform_input = Zin],
           gamma_of_impedance(Zin, l.Z0, FALSE).val)

(* Lines 50-54.                                                             *)
QwtTransform(l, ZL, Zt) ==
  QwtReflect([l EXCEPT !.Zt = Zt, !.l_qw = FDiv(Pi, FMul(Two, l.beta))],
             CDivNp(CMul(Zt, Zt), ZL))

(* A transformer impedance chosen as the product Z0 * ZL, without the root.  *)
QwtGuardNoRoot(l, ZL) ==
  IF IsCloseToZero(l.beta)
  THEN [exc |-> "ValueError", val |-> None, locals |-> l]
  ELSE QwtTransform(l, ZL, CMul(l.Z0, ZL))

(* Lines 41-47.                                                             *)
QwtGuard(l, ZL) ==
  IF IsCloseToZero(l.beta)
  THEN [exc |-> "ValueError", val |-> None, locals |-> l]
  ELSE QwtTransform(l, ZL, CSqrt(CMul(l.Z0, ZL)))

(* Lines 39-40.                                                             *)
QwtHost(gz, ZL) ==
  IF gz.exc # None THEN [exc |-> gz.exc, val |-> None, locals |-> QwtUnbound]
  ELSE QwtGuard([QwtUnbound EXCEPT !.gamma = gz.val[1], !.Z0 = gz.val[2],
                                   !.beta = Im(gz.val[1])], ZL)

quarter_wave_transform(R, L, G, C, f0, ZL) ==
  QwtHost(gamma_Z0(R, L, G, C, f0), ZL)

-----------------------------------------------------------------------------
(* tl_matching.py: single_stub_shunt.  The function runs as a process: its  *)
(* locals are the record loc, and the loop of lines 155-160 takes one step  *)
(* per sample.                                                              *)

(* The number of samples of the sweep, line 153.                            *)
NGrid == 1000

(* np.linspace(0, stop, NGrid)[i], i = 0 .. NGrid - 1: i * step with        *)
(* step = stop / (NGrid - 1), the last sample set to stop.                  *)
LinspaceBy(stop, step, i) ==
  IF i = NGrid - 1 THEN stop
  ELSE IF FEq(step, Zero) THEN FMul(FDiv(IntToF(i), IntToF(NGrid - 1)), stop)
  ELSE FMul(IntToF(i), step)

Linspace(stop, i) == LinspaceBy(stop, FDiv(stop, IntToF(NGrid - 1)), i)

StubUnbound ==
  [gamma |-> None, Z0 |-> None, beta |-> None, lam |-> None, y0 |-> None,
   i |-> None, min_err |-> None, d_best |-> None, Yin_best |-> None,
   B_needed |-> None, target |-> None, theta |-> None, l_stub |-> None,
   Y_stub |-> None]

(* A section characterised with the host line's own R and G.                *)
StubLineArgsLossy(R, L, G, C, f0) == <<R, L, G, C, f0>>

(* Line 147: the section is characterised with R = 0 and G = 0.             *)
StubLineArgs(R, L, G, C, f0) == <<Zero, L, Zero, C, f0>>

StubLine(a) == gamma_Z0(a[1], a[2], a[3], a[4], a[5])

(* Lines 148-154: the locals bound before the loop (min_err = 1e9).         *)
StubLocals(gamma, Z0, beta) ==
  [gamma |-> gamma, Z0 |-> Z0, beta |-> beta,
   lam |-> FDiv(FMul(Two, Pi), beta),
   y0 |-> CDivNp(COne, Z0),
   i |-> 0, min_err |-> <<1000, 6>>, d_best |-> None, Yin_best |-> None,
   B_needed |-> None, target |-> None, theta |-> None, l_stub |-> None,
   Y_stub |-> None]

(* Lines 147-154.                                                           *)
StubSectionOf(gz) ==
  IF gz.exc # None THEN Raise(gz.exc)
  ELSE Return(StubLocals(gz.val[1], gz.val[2], Im(gz.val[1])))

StubSection(R, L, G, C, f0) == StubSectionOf(StubLine(StubLineArgs(R, L, G, C, f0)))

(* Lines 156-157, with t = np.tan(beta * d).                                *)
YinOfTan(Z0, ZL, t) ==
  CDivNp(COne,
         CDivNp(CMul(Z0, CAdd(ZL, CMul(CMul(ImagUnit, Z0), t))),
                CAdd(Z0, CMul(CMul(ImagUnit, ZL), t))))

YinAt(Z0, beta, ZL, d) == YinOfTan(Z0, ZL, OfReal(FTan(FMul(beta, d))))

(* Lines 158-160.                                                           *)
StubKeepBest(s, d, Yin, err) ==
  IF FLt(err, s.min_err)
  THEN [s EXCEPT !.i = s.i + 1, !.min_err = err, !.d_best = d, !.Yin_best = Yin]
  ELSE [s EXCEPT !.i = s.i + 1]

StubScanAt(s, d, Yin) ==
  StubKeepBest(s, d, Yin, FAbs(FSub(Re(Yin), Re(s.y0))))

StubScanSample(s, ZL, d) == StubScanAt(s, d, YinAt(s.Z0, s.beta, ZL, d))

(* Lines 155-160: one pass of the loop body, for sample s.i.                *)
StubScanBody(s, ZL) == StubScanSample(s, ZL, Linspace(FMul(s.lam, Half), s.i))

RoundTo(x, k, p) == Norm(Sign(x) * ((IAbs(x[1]) + p \div 2) \div p), -k)

(* f"{x:.kf}": x rounded to k decimals.                                     *)
RoundDecimals(x, k) ==
  IF ~IsFinite(x) \/ x[1] = 0 \/ x[2] >= -k THEN x
  ELSE IF -k - x[2] > 4 THEN Zero
  ELSE RoundTo(x, k, Pow10(-k - x[2]))

CRoundDecimals(z, k) == <<RoundDecimals(z[1], k), RoundDecimals(z[2], k)>>

(* Lines 171-172 and 179-180.                                               *)
StubAngleUnshifted(theta0) == theta0

StubAngle(theta0) ==
  IF CLt(theta0, CZero) THEN CAdd(theta0, OfReal(Pi)) ELSE theta0

(* Lines 173-174 and 181-182: -1j * (1/Z0) / tan(beta * l_stub) for the     *)
(* shorted stub, 1j * (1/Z0) / tan(beta * l_stub) for the open one.         *)
StubAdmittance(unit, Z0, beta, target, theta, l_stub) ==
  [target |-> target, theta |-> theta, l_stub |-> l_stub,
   Y_stub |-> CDivNp(CMul(unit, CDivNp(COne, Z0)),
                     CTan(CMul(OfReal(beta), l_stub)))]

StubOfAngle(unit, Z0, beta, target, theta) ==
  StubAdmittance(unit, Z0, beta, target, theta, CDivNp(theta, OfReal(beta)))

StubOfTarget(unit, Z0, beta, target) ==
  StubOfAngle(unit, Z0, beta, target,
              StubAngle(CArctan(CDivNp(COne, target))))

(* Lines 167-182: the stub length and the stub admittance recomputed from   *)
(* it.                                                                      *)
StubLength(B_needed, Z0, beta, prefer) ==
  IF prefer = "short"
  THEN StubOfTarget(CNeg(ImagUnit), Z0, beta, CMul(OfReal(FNeg(B_needed)), Z0))
  ELSE StubOfTarget(ImagUnit, Z0, beta, CMul(OfReal(B_needed), Z0))

(* Line 188: the chain handed to cascade_abcd.                              *)
StubChain(abcd1, abcd_stub, abcd2) == <<abcd1, abcd_stub, abcd2>>

(* Lines 191-198.                                                           *)
StubResult(s, B_needed, st, Zin) ==
  [VSWR_src |-> vswr_from_gamma(gamma_of_impedance(Zin, s.Z0, FALSE).val),
   d_opt |-> s.d_best,
   l_stub |-> st.l_stub,
   notes |-> <<RoundDecimals(s.d_best, 4), CRoundDecimals(s.Yin_best, 5),
               RoundDecimals(B_needed, 5), CRoundDecimals(st.l_stub, 4)>>]

(* The locals bound on lines 164-182.                                       *)
StubBound(s, B_needed, st) ==
  [s EXCEPT !.B_needed = B_needed, !.target = st.target, !.theta = st.theta,
            !.l_stub = st.l_stub, !.Y_stub = st.Y_stub]

(* Lines 185-189.                                                           *)
StubCascade(s, l, ZL, B_needed, st) ==
  [exc |-> None,
   val |-> StubResult(s, B_needed, st,
     z_in_from_abcd(
       cascade_abcd(StubChain(abcd_of_tline(s.gamma, s.Z0, s.d_best, FALSE).val,
                              abcd_of_shunt_admittance(st.Y_stub),
                              abcd_of_tline(s.gamma, s.Z0, FSub(l, s.d_best),
                                            FALSE).val)),
       ZL).val),
   locals |-> StubBound(s, B_needed, st)]

StubMatch(s, l, ZL, prefer, B_needed) ==
  StubCascade(s, l, ZL, B_needed, StubLength(B_needed, s.Z0, s.beta, prefer))

(* Lines 161-198: after the loop.  Yin_best - y0 with Yin_best still None   *)
(* raises TypeError on line 164.                                            *)
StubFinish(s, l, ZL, prefer) ==
  IF s.Yin_best = None
  THEN [exc |-> "TypeError", val |-> None, locals |-> s]
  ELSE StubMatch(s, l, ZL, prefer, FNeg(Im(CSub(s.Yin_best, s.y0))))

-----------------------------------------------------------------------------
(* Inputs.                                                                  *)

RVals == {Zero, <<5000, -5>>, <<1000, -4>>}
LVals == {Zero, <<2000, -10>>}
GVals == {Zero, <<1000, -11>>, <<1000, -5>>}
CVals == {Zero, <<1000, -13>>}
FVals == {Zero, <<1000, -4>>, <<1000, 6>>}

LoadVals ==
  {CZero, OfReal(<<1000, -1>>), OfReal(<<5000, -2>>),
   <<<<1000, -1>>, <<5000, -2>>>>, <<<<2500, -2>>, <<-1000, -2>>>>,
   <<PosInf, Zero>>}

LineArgs == [R : RVals, L : LVals, G : GVals, C : CVals, freq : FVals]

QwtArgs ==
  [R : RVals, L : LVals, G : GVals, C : CVals, f0 : FVals, ZL : LoadVals]

GammaVals ==
  {CZero, <<Zero, One>>, <<<<1000, -4>>, <<2000, -3>>>>, <<Zero, <<2810, -2>>>>,
   <<PosInf, Zero>>}
Z0Vals == {CZero, OfReal(<<5000, -2>>), <<<<4472, -2>>, <<-8893, -7>>>>}
LengthVals == {Zero, <<1000, -4>>, <<2500, -4>>}

TlineArgs ==
  [gamma : GammaVals, Z0 : Z0Vals, length : LengthVals, z0_py : BOOLEAN]

(* Matrices handed to z_in_from_abcd and cascade_abcd directly: two shunt   *)
(* admittances, two line sections, a series impedance and a full matrix.    *)
MatVals ==
  {abcd_of_shunt_admittance(OfReal(<<1000, -5>>)),
   abcd_of_shunt_admittance(<<Zero, <<-2496, -5>>>>),
   abcd_of_tline(<<Zero, One>>, OfReal(<<5000, -2>>), <<1000, -4>>, TRUE).val,
   abcd_of_tline(<<<<1000, -4>>, <<2810, -2>>>>, OfReal(<<4472, -2>>),
                 <<4420, -5>>, TRUE).val,
   <<<<COne, OfReal(<<5000, -2>>)>>, <<CZero, COne>>>>,
   <<<<OfReal(Two), OfReal(<<3000, -3>>)>>, <<COne, OfReal(Two)>>>>}

(* Matrices whose denominator C*ZL + D lies just below, at and just above   *)
(* the 1e-12 tolerance, and one that cancels at ZL = 50.                    *)
EdgeMatVals ==
  {<<<<COne, CZero>>, <<CZero, OfReal(<<5000, -16>>)>>>>,
   <<<<COne, CZero>>, <<CZero, OfReal(<<1000, -15>>)>>>>,
   <<<<COne, CZero>>, <<CZero, <<<<1000, -15>>, <<1000, -15>>>>>>>>,
   <<<<COne, CZero>>, <<CZero, <<Zero, <<9000, -16>>>>>>>>,
   abcd_of_shunt_admittance(OfReal(<<-2000, -5>>))}

MaxCascadeLen == 3

RECURSIVE SeqsUpTo(_, _)
SeqsUpTo(S, n) ==
  IF n = 0 THEN {<<>>}
  ELSE SeqsUpTo(S, n - 1) \cup {Append(q, x) : q \in SeqsUpTo(S, n - 1), x \in S}

CascadeArgs == [abcd_list : SeqsUpTo(MatVals, MaxCascadeLen)]

ZinArgs == [ABCD : MatVals \cup EdgeMatVals, ZL : LoadVals]

ImpedancePairs ==
  {<<OfReal(<<5000, -2>>), OfReal(<<5000, -2>>)>>,
   <<OfReal(<<-5000, -2>>), OfReal(<<5000, -2>>)>>,
   <<CZero, OfReal(<<5000, -2>>)>>,
   <<OfReal(<<1000, 9>>), OfReal(<<5000, -2>>)>>,
   <<OfReal(<<3000, -16>>), OfReal(<<2000, -16>>)>>,
   <<OfReal(<<5000, -16>>), OfReal(<<5000, -16>>)>>,
   <<OfReal(<<1000, -15>>), OfReal(<<1000, -15>>)>>,
   <<<<Zero, <<6000, -16>>>>, <<<<7000, -16>>, Zero>>>>,
   <<<<<<1000, -1>>, <<5000, -2>>>>, <<<<4472, -2>>, Zero>>>>,
   <<CZero, CZero>>,
   <<OfReal(<<3000, -16>>), OfReal(<<3000, -16>>)>>,
   <<<<<<4472, -2>>, <<-8893, -7>>>>, <<<<4472, -2>>, <<-8893, -7>>>>>>,
   <<InfSentinel, InfSentinel>>}

ImpedanceArgs ==
  {[ZL |-> p[1], Z0 |-> p[2], py |-> b] : p \in ImpedancePairs, b \in BOOLEAN}

ReflectionVals ==
  {CZero, OfReal(Half), COne, OfReal(<<1500, -3>>), <<Zero, One>>,
   <<<<6000, -4>>, <<8000, -4>>>>, <<<<3000, -4>>, <<-4000, -4>>>>,
   OfReal(<<5000, -16>>), <<NaN, NaN>>}

MetricArgs == [gamma : ReflectionVals]

MetricFns == {"vswr_from_gamma", "return_loss", "mismatch_loss"}

-----------------------------------------------------------------------------
(* The functions called on their own, and a caller passing one function's   *)
(* result on to the next.                                                   *)

NoLocals == [div |-> None]

Init ==
  /\ pc = "call"
  /\ \/ fn = "gamma_Z0" /\ args \in LineArgs
     \/ fn = "quarter_wave_transform" /\ args \in QwtArgs
     \/ fn = "abcd_of_tline" /\ args \in TlineArgs
     \/ fn = "cascade_abcd" /\ args \in CascadeArgs
     \/ fn = "z_in_from_abcd" /\ args \in ZinArgs
     \/ fn = "gamma_of_impedance" /\ args \in ImpedanceArgs
     \/ fn \in MetricFns /\ args \in MetricArgs
  /\ loc = NoLocals
  /\ ret = None
  /\ exc = None
  /\ hist = <<>>

Finish(out, locals) ==
  /\ pc' = IF out.exc = None THEN "returned" ELSE "raised"
  /\ ret' = out.val
  /\ exc' = out.exc
  /\ loc' = locals
  /\ UNCHANGED <<fn, args, hist>>

FinishWith(out) == Finish(out, out.locals)

FinishGuarded(out) == Finish(Return(out.val), [div |-> out.div])

Call_gamma_Z0 ==
  /\ pc = "call" /\ fn = "gamma_Z0"
  /\ Finish(gamma_Z0(args.R, args.L, args.G, args.C, args.freq), loc)

Call_quarter_wave_transform ==
  /\ pc = "call" /\ fn = "quarter_wave_transform"
  /\ FinishWith(quarter_wave_transform(args.R, args.L, args.G, args.C,
                                       args.f0, args.ZL))

Call_abcd_of_tline ==
  /\ pc = "call" /\ fn = "abcd_of_tline"
  /\ Finish(abcd_of_tline(args.gamma, args.Z0, args.length, args.z0_py), loc)

Call_cascade_abcd ==
  /\ pc = "call" /\ fn = "cascade_abcd"
  /\ Finish(Return(cascade_abcd(args.abcd_list)), loc)

Call_z_in_from_abcd ==
  /\ pc = "call" /\ fn = "z_in_from_abcd"
  /\ FinishGuarded(z_in_from_abcd(args.ABCD, args.ZL))

Call_gamma_of_impedance ==
  /\ pc = "call" /\ fn = "gamma_of_impedance"
  /\ FinishGuarded(gamma_of_impedance(args.ZL, args.Z0, args.py))

Call_vswr_from_gamma ==
  /\ pc = "call" /\ fn = "vswr_from_gamma"
  /\ Finish(Return(vswr_from_gamma(args.gamma)), loc)

Call_return_loss ==
  /\ pc = "call" /\ fn = "return_loss"
  /\ Finish(Return(return_loss(args.gamma)), loc)

Call_mismatch_loss ==
  /\ pc = "call" /\ fn = "mismatch_loss"
  /\ Finish(Return(mismatch_loss(args.gamma)), loc)

Completed == [fn |-> fn, args |-> args, ret |-> ret, exc |-> exc]

PassOn(f, a) ==
  /\ fn' = f
  /\ args' = a
  /\ pc' = "call"
  /\ loc' = NoLocals
  /\ ret' = None
  /\ exc' = None
  /\ hist' = Append(hist, Completed)

(* Zin = z_in_from_abcd(abcd_of_tline(...), ZL)                             *)
PassLineToZin ==
  /\ pc = "returned" /\ fn = "abcd_of_tline"
  /\ \E ZL \in LoadVals : PassOn("z_in_from_abcd", [ABCD |-> ret, ZL |-> ZL])

(* Gamma_in = gamma_of_impedance(Zin, Z0): Zin is a numpy scalar unless it  *)
(* is the sentinel, a Python float.                                         *)
PassZinToGamma ==
  /\ pc = "returned" /\ fn = "z_in_from_abcd"
  /\ \E Z0 \in Z0Vals \ {CZero}, py \in BOOLEAN :
       /\ py => loc.div = None
       /\ PassOn("gamma_of_impedance", [ZL |-> ret, Z0 |-> Z0, py |-> py])

(* VSWR = vswr_from_gamma(Gamma_in), and the two losses                     *)
PassGammaToMetric ==
  /\ pc = "returned" /\ fn = "gamma_of_impedance" /\ hist # <<>>
  /\ \E m \in MetricFns : PassOn(m, [gamma |-> ret])

Next ==
  \/ Call_gamma_Z0
  \/ Call_quarter_wave_transform
  \/ Call_abcd_of_tline
  \/ Call_cascade_abcd
  \/ Call_z_in_from_abcd
  \/ Call_gamma_of_impedance
  \/ Call_vswr_from_gamma
  \/ Call_return_loss
  \/ Call_mismatch_loss
  \/ PassLineToZin
  \/ PassZinToGamma
  \/ PassGammaToMetric

Spec == Init /\ [][Next]_vars

-----------------------------------------------------------------------------
(* single_stub_shunt as a process, and a caller that repeats a finished     *)
(* call with other host-line losses R and G.                                *)

(* The spec's scenario: R = 0.05, L = 2e-7, G = 1e-8, C = 1e-10, f0 = 1e9,  *)
(* l = 0.1, ZL = 100+50j; and around it L = 0, C = 0 and f0 = 0, a purely   *)
(* reactive load, 50j (Re(Yin) is 0 at every sample), and a load equal to   *)
(* the section's Z0 (no susceptance to cancel).                             *)
StubArgs ==
  [R : {<<5000, -5>>}, L : {<<2000, -10>>, Zero}, G : {<<1000, -11>>},
   C : {<<1000, -13>>, Zero}, f0 : {<<1000, 6>>, Zero}, l : {<<1000, -4>>},
   ZL : {<<<<1000, -1>>, <<5000, -2>>>>, <<Zero, <<5000, -2>>>>,
         <<<<4472, -2>>, Zero>>},
   prefer : {"short", "open"}]

LossVals == {<<Zero, Zero>>, <<<<1000, -4>>, <<1000, -11>>>>, <<<<5000, -5>>, Zero>>}

InitStub ==
  /\ pc = "call"
  /\ fn = "single_stub_shunt"
  /\ args \in StubArgs
  /\ loc = StubUnbound
  /\ ret = None
  /\ exc = None
  /\ hist = <<>>

StubEnter(out) ==
  /\ pc' = IF out.exc = None THEN "scan" ELSE "raised"
  /\ exc' = out.exc
  /\ loc' = IF out.exc = None THEN out.val ELSE loc
  /\ UNCHANGED <<fn, args, ret, hist>>

(* Lines 147-154.                                                           *)
StubBegin ==
  /\ pc = "call" /\ fn = "single_stub_shunt"
  /\ StubEnter(StubSection(args.R, args.L, args.G, args.C, args.f0))

(* Lines 155-160, one sample.                                               *)
StubScan ==
  /\ pc = "scan" /\ loc.i < NGrid
  /\ loc' = StubScanBody(loc, args.ZL)
  /\ UNCHANGED <<fn, pc, args, ret, exc, hist>>

(* Lines 161-198.                                                           *)
StubEnd ==
  /\ pc = "scan" /\ loc.i = NGrid
  /\ FinishWith(StubFinish(loc, args.l, args.ZL, args.prefer))

(* The same call again, with other R and G.                                 *)
StubAgain ==
  /\ pc \in {"returned", "raised"} /\ fn = "single_stub_shunt" /\ hist = <<>>
  /\ \E rg \in LossVals :
       /\ fn' = fn
       /\ args' = [args EXCEPT !.R = rg[1], !.G = rg[2]]
       /\ pc' = "call"
       /\ loc' = StubUnbound
       /\ ret' = None
       /\ exc' = None
       /\ hist' = <<Completed>>

NextStub ==
  \/ StubBegin
  \/ StubScan
  \/ StubEnd
  \/ StubAgain

SpecStub == InitStub /\ [][NextStub]_vars

-----------------------------------------------------------------------------
(* Properties.                                                              *)

StubCall == fn = "single_stub_shunt"

(* The arguments for which the lossless section has no phase: gamma =       *)
(* sqrt(-omega^2 L C) = 0.                                                  *)
StubPhaseIsZero == IsZero(args.f0) \/ IsZero(args.L) \/ IsZero(args.C)

(* C1: single_stub_shunt raises an error, and returns no result, whenever   *)
(* beta of the lossless matching section is numerically zero (f0 = 0, L = 0 *)
(* or C = 0), and it does so before lam = 2*pi/beta, the grid scan and the  *)
(* stub length are computed.                                                *)
C1_StubRaisesOnZeroPhase ==
  (StubCall /\ pc # "call" /\ StubPhaseIsZero)
    => (pc = "raised" /\ loc.lam = None /\ loc.i = None)

(* beta = Im(gamma) of the host line, from the arguments of                 *)
(* quarter_wave_transform.                                                  *)
HostBeta ==
  Im(CSqrt(CMul(Immittance(args.R, Omega(args.f0), args.L),
                Immittance(args.G, Omega(args.f0), args.C))))

QwtCall == fn = "quarter_wave_transform"

(* C2: quarter_wave_transform raises ValueError whenever beta of the host   *)
(* line is numerically zero, before Zt, l_qw or any metric is computed, so  *)
(* that no result is produced; for beta not close to zero the guard raises  *)
(* nothing.                                                                 *)
C2_QuarterWaveGuard ==
  (QwtCall /\ pc # "call")
    => IF IsCloseToZero(HostBeta)
       THEN /\ pc = "raised" /\ exc = "ValueError" /\ ret = None
            /\ loc.Zt = None /\ loc.l_qw = None
            /\ loc.Gamma_in = None /\ loc.VSWR_src = None
       ELSE exc # "ValueError"

(* C3: gamma_Z0 with f = 0 completes without a division by zero for all     *)
(* non-negative R, L, G, C, G = 0 included; when R > 0 and G > 0 both gamma *)
(* and Z0 are finite.                                                       *)
C3_ZeroFrequencyCompletes ==
  (fn = "gamma_Z0" /\ pc # "call" /\ IsZero(args.freq))
    => /\ pc = "returned"
       /\ (FGt(args.R, Zero) /\ FGt(args.G, Zero))
            => (IsCFinite(ret[1]) /\ IsCFinite(ret[2]))

(* The tolerance the sentinel policy names, 1e-12.                          *)
PolicyTol == <<1000, -15>>

ZinDenominator == CAdd(CMul(args.ABCD[2][1], args.ZL), args.ABCD[2][2])
ZinNumerator   == CAdd(CMul(args.ABCD[1][1], args.ZL), args.ABCD[1][2])

ZinPolicy ==
  (fn = "z_in_from_abcd" /\ pc # "call")
    => /\ pc = "returned"
       /\ IF FLt(CAbs(ZinDenominator), PolicyTol)
          THEN ret = InfSentinel /\ loc.div = None
          ELSE ret = CDivNp(ZinNumerator, ZinDenominator)
               /\ loc.div = ZinDenominator

GammaQuotient ==
  IF args.py THEN CDivPy(CSub(args.ZL, args.Z0), CAdd(args.ZL, args.Z0))
  ELSE CDivNp(CSub(args.ZL, args.Z0), CAdd(args.ZL, args.Z0))

GammaPolicy ==
  (fn = "gamma_of_impedance" /\ pc # "call")
    => /\ pc = "returned"
       /\ IF FLt(CAbs(CAdd(args.ZL, args.Z0)), PolicyTol)
          THEN ret = COne /\ loc.div = None
          ELSE ret = GammaQuotient /\ loc.div = CAdd(args.ZL, args.Z0)

NoSmallDivisor ==
  (fn \in {"z_in_from_abcd", "gamma_of_impedance"} /\ loc.div # None)
    => ~FLt(CAbs(loc.div), PolicyTol)

(* C4: the sentinel policy.  z_in_from_abcd never raises: it returns the    *)
(* positive-infinity sentinel when |C*ZL + D| < 1e-12 and                   *)
(* (A*ZL + B)/(C*ZL + D) otherwise; gamma_of_impedance returns exactly 1    *)
(* when |ZL + Z0| < 1e-12 and (ZL - Z0)/(ZL + Z0) otherwise; neither        *)
(* divides by a denominator of magnitude below 1e-12.                       *)
C4_SentinelPolicy == ZinPolicy /\ GammaPolicy /\ NoSmallDivisor

(* The sentinel was returned for a denominator that is small but not zero,  *)
(* and the reflection coefficient 1 for a sum that is small but not zero.   *)
C4_Witness ==
  /\ pc = "returned"
  /\ \/ fn = "z_in_from_abcd" /\ ret = InfSentinel /\ ~IsCZero(ZinDenominator)
     \/ fn = "gamma_of_impedance" /\ ret = COne
        /\ ~IsCZero(CAdd(args.ZL, args.Z0))
  /\ loc.div = None

(* The call before the current one returned the sentinel of z_in_from_abcd. *)
SentinelBack(k) ==
  /\ Len(hist) >= k
  /\ hist[Len(hist) - k + 1].fn = "z_in_from_abcd"
  /\ hist[Len(hist) - k + 1].ret = InfSentinel

(* C5: the sentinel of z_in_from_abcd, fed into gamma_of_impedance with a   *)
(* finite Z0 and then into vswr_from_gamma, return_loss and mismatch_loss,  *)
(* raises nothing, and the metrics are those of an open circuit:            *)
(* |Gamma| = 1 and VSWR = +infinity.                                        *)
C5_SentinelIsOpenCircuit ==
  /\ (fn = "gamma_of_impedance" /\ pc # "call" /\ SentinelBack(1))
       => (pc = "returned" /\ FEq(CAbs(ret), One))
  /\ (fn \in MetricFns /\ pc # "call" /\ SentinelBack(2))
       => pc = "returned"
  /\ (fn = "vswr_from_gamma" /\ pc # "call" /\ SentinelBack(2))
       => ret = PosInf

(* The single-stub scenario of the spec.                                    *)
ScenarioArgs ==
  [R |-> <<5000, -5>>, L |-> <<2000, -10>>, G |-> <<1000, -11>>,
   C |-> <<1000, -13>>, f0 |-> <<1000, 6>>, l |-> <<1000, -4>>,
   ZL |-> <<<<1000, -1>>, <<5000, -2>>>>, prefer |-> "short"]

(* C6: for R = 0.05, L = 2e-7, G = 1e-8, C = 1e-10, f0 = 1e9, l = 0.1,      *)
(* ZL = 100+50j and a shorted stub, single_stub_shunt returns a VSWR_src    *)
(* below 1.05.                                                              *)
C6_ScenarioIsMatched ==
  (StubCall /\ args = ScenarioArgs /\ pc \in {"returned", "raised"})
    => (pc = "returned" /\ FLt(ret.VSWR_src, <<1050, -3>>))

(* v = 1 up to the rounding of the arithmetic.                              *)
NearOne(v) == FLe(FAbs(FSub(v, One)), <<1000, -5>>)

(* C7 as stated: for every load ZL and every host line whose beta is not    *)
(* (numerically) zero, quarter_wave_transform returns with VSWR_src = 1 (up *)
(* to rounding) and l_qw > 0.                                               *)
C7_EveryLoadIsMatched ==
  (QwtCall /\ pc # "call" /\ ~IsCloseToZero(HostBeta))
    => (pc = "returned" /\ NearOne(ret.VSWR_src) /\ FGt(ret.l_qw, Zero))

(* C7, amended: for every finite load ZL other than 0 and every host line   *)
(* whose beta is not numerically zero (|beta| > 1e-8),                      *)
(* quarter_wave_transform returns with VSWR_src = 1 up to rounding and      *)
(* l_qw = pi/(2*beta) > 0.                                                  *)
C7_FiniteNonZeroLoadIsMatched ==
  (QwtCall /\ pc # "call" /\ ~IsCloseToZero(HostBeta)
     /\ IsCFinite(args.ZL) /\ ~IsCZero(args.ZL))
    => /\ pc = "returned"
       /\ NearOne(ret.VSWR_src)
       /\ FGt(ret.l_qw, Zero)
       /\ ret.l_qw = FDiv(Pi, FMul(Two, HostBeta))

(* A complex load on a lossy host line was matched.                         *)
C7_Witness ==
  /\ QwtCall /\ pc = "returned"
  /\ FGt(args.R, Zero) /\ FGt(args.G, Zero)
  /\ ~IsZero(Im(args.ZL))
  /\ NearOne(ret.VSWR_src)

(* C8: the output of single_stub_shunt does not depend on R and G: a call   *)
(* that differs from an earlier one only in R and G ends as that one did,   *)
(* with the same VSWR_src, d_opt, l_stub and notes or the same exception.   *)
C8_IndependentOfLoss ==
  (StubCall /\ pc \in {"returned", "raised"} /\ hist # <<>>)
    => (ret = hist[1].ret /\ exc = hist[1].exc)

(* Two calls with different R and G have both returned a result.            *)
C8_Witness ==
  /\ StubCall /\ pc = "returned" /\ hist # <<>>
  /\ args.R # hist[1].args.R /\ args.G # hist[1].args.G
  /\ [args EXCEPT !.R = Zero, !.G = Zero]
       = [hist[1].args EXCEPT !.R = Zero, !.G = Zero]
  /\ IsFinite(ret.VSWR_src)

CascadeReturned == fn = "cascade_abcd" /\ pc = "returned"

Front(s) == SubSeq(s, 1, Len(s) - 1)

(* cascade(xs ++ ys) regrouped at k: cascade([cascade(xs), cascade(ys)]).   *)
Regrouped(s, k) ==
  cascade_abcd(<<cascade_abcd(SubSeq(s, 1, k)),
                 cascade_abcd(SubSeq(s, k + 1, Len(s)))>>)

AbsMat(M) ==
  <<<<OfReal(CAbs(M[1][1])), OfReal(CAbs(M[1][2]))>>,
    <<OfReal(CAbs(M[2][1])), OfReal(CAbs(M[2][2]))>>>>

(* The product of the matrices of magnitudes: the scale of the rounding     *)
(* error of each element of the product.                                    *)
RECURSIVE ScaleOf(_)
ScaleOf(s) ==
  IF s = <<>> THEN Identity2 ELSE MatMul(ScaleOf(Front(s)), AbsMat(s[Len(s)]))

NearMat(M, N, S) ==
  \A i \in 1..2, j \in 1..2 :
    FLe(CAbs(CSub(M[i][j], N[i][j])), FMul(<<1000, -5>>, Re(S[i][j])))

(* cascade([]) is the identity, cascade([M]) = M, and the result is the     *)
(* product in list order: cascade(xs ++ [M]) = cascade(xs) @ M.             *)
LeftToRight ==
  CascadeReturned =>
    /\ args.abcd_list = <<>> => ret = Identity2
    /\ Len(args.abcd_list) = 1 => ret = args.abcd_list[1]
    /\ args.abcd_list # <<>> =>
         ret = MatMul(cascade_abcd(Front(args.abcd_list)),
                      args.abcd_list[Len(args.abcd_list)])

(* Exchanging two matrices that do not commute changes the result.          *)
OrderSensitive ==
  (CascadeReturned /\ Len(args.abcd_list) = 2
     /\ MatMul(args.abcd_list[1], args.abcd_list[2])
          # MatMul(args.abcd_list[2], args.abcd_list[1]))
    => ret # cascade_abcd(<<args.abcd_list[2], args.abcd_list[1]>>)

(* C9 as stated: cascade_abcd is associative under list concatenation,      *)
(* cascade(xs ++ ys) = cascade([cascade(xs), cascade(ys)]).                 *)
C9_ExactlyAssociative ==
  CascadeReturned =>
    \A k \in 0..Len(args.abcd_list) : ret = Regrouped(args.abcd_list, k)

(* C9, amended: for matrices with finite elements cascade_abcd returns the  *)
(* left-to-right product from the identity (cascade([]) = I,                *)
(* cascade([M]) = M, list order), is associative under concatenation up to  *)
(* the rounding of the floating-point products, and is order-sensitive.     *)
C9_LeftToRightProduct ==
  /\ LeftToRight
  /\ OrderSensitive
  /\ CascadeReturned =>
       \A k \in 0..Len(args.abcd_list) :
         NearMat(ret, Regrouped(args.abcd_list, k), ScaleOf(args.abcd_list))

(* A line section, a shunt admittance and a line section were cascaded, and *)
(* exchanging the first two would have changed the product.                 *)
C9_Witness ==
  /\ CascadeReturned /\ Len(args.abcd_list) = 3
  /\ args.abcd_list[1] # args.abcd_list[2]
  /\ MatMul(args.abcd_list[1], args.abcd_list[2])
       # MatMul(args.abcd_list[2], args.abcd_list[1])
  /\ ret # Regrouped(args.abcd_list, 1)

ZeroLengthLine(a) == IsZero(a.length)

AfterZeroLengthLine ==
  /\ fn = "z_in_from_abcd" /\ hist # <<>>
  /\ hist[Len(hist)].fn = "abcd_of_tline"
  /\ ZeroLengthLine(hist[Len(hist)].args)

(* C10 as stated: for any gamma, any Z0 and any load ZL the matrix of a     *)
(* zero-length line is the identity and                                     *)
(* z_in_from_abcd(abcd_of_tline(gamma, Z0, 0), ZL) = ZL.                    *)
C10_ZeroLengthIsIdentity ==
  /\ (fn = "abcd_of_tline" /\ pc # "call" /\ ZeroLengthLine(args))
       => (pc = "returned" /\ ret = Identity2)
  /\ (AfterZeroLengthLine /\ pc # "call")
       => (pc = "returned" /\ ret = args.ZL)

RegularLine(a) == IsCFinite(a.gamma) /\ IsCFinite(a.Z0) /\ ~IsCZero(a.Z0)

(* C10, amended: for any finite gamma, any finite Z0 other than 0 and any   *)
(* finite load ZL the matrix of a zero-length line is the identity and      *)
(* z_in_from_abcd(abcd_of_tline(gamma, Z0, 0), ZL) = ZL, by a division by   *)
(* the denominator 1 (the sentinel branch is not taken).                    *)
C10_RegularZeroLengthIsIdentity ==
  /\ (fn = "abcd_of_tline" /\ pc # "call" /\ ZeroLengthLine(args)
        /\ RegularLine(args))
       => (pc = "returned" /\ ret = Identity2)
  /\ (AfterZeroLengthLine /\ pc # "call" /\ RegularLine(hist[Len(hist)].args)
        /\ IsCFinite(args.ZL))
       => (pc = "returned" /\ ret = args.ZL /\ loc.div = COne)

(* The load 100+50j was seen through a zero-length section of a line with   *)
(* a complex Z0.                                                            *)
C10_Witness ==
  /\ AfterZeroLengthLine /\ pc = "returned"
  /\ ~IsZero(Im(hist[Len(hist)].args.Z0))
  /\ ~IsCZero(hist[Len(hist)].args.gamma)
  /\ ~IsZero(Im(args.ZL))
  /\ ret = args.ZL

-----------------------------------------------------------------------------
(* The metrics of a matched load.                                           *)

MetricCall(m) == fn = m /\ pc = "returned"

MatchedCall ==
  /\ fn = "gamma_of_impedance" /\ pc = "returned"
  /\ args.ZL = args.Z0

(* The reference impedances whose double is finite and not below the        *)
(* tolerance of the guard on line 22.                                       *)
RegularReference(Z0) ==
  /\ IsCFinite(CAdd(Z0, Z0))
  /\ ~FLt(CAbs(CAdd(Z0, Z0)), Tol12)

MatchedMetrics ==
  /\ MetricCall("vswr_from_gamma") /\ args.gamma = CZero => ret = One
  /\ MetricCall("return_loss") /\ args.gamma = CZero => ret = <<1000, -1>>
  /\ MetricCall("mismatch_loss") /\ args.gamma = CZero => ret = Zero

TotalReflection ==
  /\ (MetricCall("vswr_from_gamma") \/ MetricCall("mismatch_loss"))
  /\ FGe(CAbs(args.gamma), One)

(* C11, as claimed: gamma_of_impedance(Z0, Z0) is 0 for any Z0; for Gamma = *)
(* 0 the VSWR is 1, the return loss is the 100 dB ceiling and the mismatch  *)
(* loss is 0 dB; for |Gamma| >= 1 the VSWR and the mismatch loss are +inf.  *)
C11_MatchedForAnyReference ==
  /\ MatchedCall => ret = CZero
  /\ MatchedMetrics
  /\ TotalReflection => ret = PosInf

(* C11, amended: the same, for the reference impedances Z0 whose double is  *)
(* finite and at least 1e-12 in magnitude; below that the guard of line 22  *)
(* returns 1, and an infinite Z0 gives nan.                                 *)
C11_MatchedForRegularReference ==
  /\ MatchedCall /\ RegularReference(args.Z0) => ret = CZero
  /\ MatchedMetrics
  /\ TotalReflection => ret = PosInf

(* The reflection coefficient of a matched load, passed on from             *)
(* gamma_of_impedance, has reached the 100 dB ceiling of return_loss.       *)
C11_Witness ==
  /\ MetricCall("return_loss") /\ ret = <<1000, -1>>
  /\ hist # <<>>
  /\ hist[Len(hist)].fn = "gamma_of_impedance"
  /\ hist[Len(hist)].args.ZL = hist[Len(hist)].args.Z0
  /\ hist[Len(hist)].ret = CZero

-----------------------------------------------------------------------------
(* The branch of the two square roots of gamma_Z0.                          *)

LineCall == fn = "gamma_Z0" /\ pc # "call"

Positive(x) == FGt(x, Zero)

PrincipalBranch ==
  /\ Positive(Im(ret[1]))
  /\ FGe(Re(ret[1]), Zero)
  /\ Positive(Re(ret[2]))

(* Z = R + j omega L and Y = G + j omega C are not zero and the line has a  *)
(* reactive element, for omega > 0.                                         *)
ReactiveLine ==
  /\ Positive(args.R) \/ Positive(args.L)
  /\ Positive(args.G) \/ Positive(args.C)
  /\ Positive(args.L) \/ Positive(args.C)

(* C12, as claimed: for all non-negative R, L, G, C and every f > 0 the     *)
(* returned gamma has Im(gamma) > 0 and Re(gamma) >= 0 and the returned Z0  *)
(* has Re(Z0) > 0.                                                          *)
C12_PrincipalBranchForEveryLine ==
  LineCall /\ pc = "returned" /\ Positive(args.freq) => PrincipalBranch

(* C12, amended: for the lines with Z # 0, Y # 0 and L > 0 or C > 0 the    *)
(* call returns, with Im(gamma) > 0, Re(gamma) >= 0 and Re(Z0) > 0; a       *)
(* purely resistive line has a real gamma, and Z = 0 gives gamma = 0 and    *)
(* Z0 = 0.                                                                  *)
C12_PrincipalBranchForReactiveLine ==
  LineCall /\ Positive(args.freq) /\ ReactiveLine
    => pc = "returned" /\ PrincipalBranch

(* A lossy line with both reactive elements has returned a gamma in the     *)
(* open first quadrant and a Z0 with a negative imaginary part.             *)
C12_Witness ==
  /\ LineCall /\ pc = "returned" /\ ReactiveLine
  /\ Positive(args.freq) /\ Positive(args.R) /\ Positive(args.L)
  /\ Positive(args.C)
  /\ Positive(Re(ret[1])) /\ Positive(Im(ret[1]))
  /\ Positive(Re(ret[2])) /\ FLt(Im(ret[2]), Zero)

-----------------------------------------------------------------------------
(* The sample chosen by the scan of single_stub_shunt.                      *)

ScanFinished ==
  fn = "single_stub_shunt" /\ pc = "scan" /\ loc.i = NGrid

Samples == 0 .. NGrid - 1

SampleAt(j) == Linspace(FMul(loc.lam, Half), j)

YinOfSample(j) == YinAt(loc.Z0, loc.beta, args.ZL, SampleAt(j))

ErrAt(j) == FAbs(FSub(Re(YinOfSample(j)), Re(loc.y0)))

(* Sample j is the first of the samples with the least error, and the       *)
(* locals of the scan are those of sample j.                                *)
ChosenIs(j) ==
  /\ loc.d_best = SampleAt(j)
  /\ loc.Yin_best = YinOfSample(j)
  /\ loc.min_err = ErrAt(j)
  /\ \A k \in Samples : FLe(ErrAt(j), ErrAt(k))
  /\ \A k \in 0 .. j - 1 : ~FEq(ErrAt(k), ErrAt(j))

ScanChoice ==
  /\ loc.d_best # None
  /\ FLe(Zero, loc.d_best) /\ FLe(loc.d_best, FMul(loc.lam, Half))
  /\ \E j \in Samples : ChosenIs(j)

(* C13: when the loop over the 1000 samples of [0, lambda/2] finishes,      *)
(* d_opt is one of the samples (never unset), its error is at most the      *)
(* error at every other sample, Yin_best is the admittance at that sample,  *)
(* and of the samples with the same least error the first is chosen.        *)
C13_ScanChoosesFirstMinimum == ScanFinished => ScanChoice

(* The same, for the scans whose section has a phase constant: it holds.    *)
ScanWithPhase == ScanFinished /\ ~IsZero(loc.beta) => ScanChoice

(* A finished scan with two samples of the same least error.                *)
ScanTie ==
  /\ ScanFinished /\ loc.d_best # None
  /\ \E j \in Samples : loc.d_best = SampleAt(j) /\ FEq(ErrAt(j + 1), ErrAt(j))

-----------------------------------------------------------------------------
(* The branch of the stub length.                                           *)

StubReturned == fn = "single_stub_shunt" /\ pc = "returned"

(* theta before the shift: arctan(1 / target).                              *)
RawAngle == CArctan(CDivNp(COne, loc.target))

StubTarget ==
  IF args.prefer = "short" THEN CMul(OfReal(FNeg(loc.B_needed)), loc.Z0)
  ELSE CMul(OfReal(loc.B_needed), loc.Z0)

AngleShifted ==
  /\ loc.target = StubTarget
  /\ FLt(Re(RawAngle), Zero) => loc.theta = CAdd(RawAngle, OfReal(Pi))
  /\ ~FLt(Re(RawAngle), Zero) => loc.theta = RawAngle

LengthInRange ==
  /\ FLe(Zero, Re(loc.theta)) /\ FLt(Re(loc.theta), Pi)
  /\ ret.l_stub = CDivNp(loc.theta, OfReal(loc.beta))
  /\ FLe(Zero, Re(ret.l_stub)) /\ FLt(Re(ret.l_stub), FMul(loc.lam, Half))
  /\ IsZero(Im(ret.l_stub))

(* |x - y| is within a hundredth of |y| + scale.                            *)
NearBy(x, y, scale) ==
  FLe(FAbs(FSub(x, y)), FMul(<<1000, -5>>, FAdd(FAbs(y), scale)))

(* C14, as claimed: for either preference theta = arctan(1/target) is       *)
(* shifted by pi exactly when it is negative, theta is in [0, pi) and       *)
(* l_stub = theta / beta in [0, lambda/2), for every B_needed, and the      *)
(* susceptance of the stub admittance recomputed from l_stub is B_needed.   *)
C14_StubSusceptanceIsExact ==
  StubReturned =>
    /\ AngleShifted
    /\ LengthInRange
    /\ Re(loc.Y_stub) = Zero /\ Im(loc.Y_stub) = loc.B_needed

(* C14, amended: the same, the recomputed susceptance being B_needed up to  *)
(* rounding (relative to |B_needed| + |y0|).                                *)
C14_StubSusceptanceIsNear ==
  StubReturned =>
    /\ AngleShifted
    /\ LengthInRange
    /\ Re(loc.Y_stub) = Zero
    /\ NearBy(Im(loc.Y_stub), loc.B_needed, CAbs(loc.y0))

(* A call has returned whose raw angle was negative and was shifted.        *)
C14_Witness ==
  /\ StubReturned
  /\ FLt(Re(RawAngle), Zero)
  /\ loc.theta = CAdd(RawAngle, OfReal(Pi))
  /\ FGt(Re(ret.l_stub), FMul(loc.lam, <<2500, -4>>))

(* A call has returned with B_needed = 0: theta = pi/2, l_stub = lambda/4.  *)
NoSusceptance ==
  /\ StubReturned
  /\ IsZero(loc.B_needed)
  /\ loc.theta = OfReal(HalfPi)

=============================================================================
